---------------------------- MODULE Spec2Model ----------------------------
(***************************************************************************)
(* scikit-metrics: the four metric functions of skmetrics/classification.py*)
(* and skmetrics/regression.py, as operators over integer-valued inputs,   *)
(* and a caller that invokes them.                                         *)
(*                                                                         *)
(* Numbers are exact: a float is an extended rational <<n, d>> in lowest   *)
(* terms with d >= 0, where <<1, 0>> is +inf, <<-1, 0>> is -inf and        *)
(* <<0, 0>> is NaN, so that division by zero behaves as numpy's does.      *)
(* x ** (1.0 / k) is kept as the pair (radicand x, index k).               *)
(*                                                                         *)
(* Rounding is modelled where a result is compared with a double: g_score  *)
(* also carries np.prod(true_rates) as the IEEE-754 binary64 value the     *)
(* divisions and multiplications of the code produce, round to nearest,    *)
(* ties to even, on a significand held in limbs.                           *)
(***************************************************************************)
EXTENDS Integers, Sequences, FiniteSets

VARIABLES
    pc,     \* "idle": no call in progress; "done": the call of fn has returned
    fn,     \* the function called
    args,   \* its arguments
    ret,    \* what it returned or raised
    prev    \* the result of the call before, in the two-cluster test

vars == <<pc, fn, args, ret, prev>>

---------------------------------------------------------------------------
(* Bounds of the input sets.                                               *)

\* labels of y_true / y_pred of g_score are 0..MaxLabel
MaxLabel == 2
\* label vectors of g_score have 1..MaxLen entries
MaxLen == 3
\* the entries of y_score of geometric_roc_auc_score are 0..MaxScore
MaxScore == 1
\* the entries of y_pred of separability_score are 0..MaxVal
MaxVal == 1
\* the two-cluster test moves a cluster by 0..MaxShift along each feature
MaxShift == 2
\* the entries of y_true and y_pred of relative_mean_absolute_error are 0,
\* 1, -1, MaxTarget and -MaxTarget
MaxTarget == 5
\* the entries of sample_weight are 0..MaxWeight
MaxWeight == 3
\* g_score of a clustering against itself: 1..MaxClasses classes of
\* 1..MaxSize samples each
MaxClasses == 3
MaxSize == 11

---------------------------------------------------------------------------
(* Extended rational arithmetic (numpy float64 semantics without rounding) *)

Abs(x) == IF x < 0 THEN -x ELSE x

Sign(x) == IF x < 0 THEN -1 ELSE IF x > 0 THEN 1 ELSE 0

RECURSIVE Gcd(_, _)
Gcd(a, b) == IF b = 0 THEN a ELSE Gcd(b, a % b)

\* n / d brought to lowest terms with d >= 0; n / 0 is inf, -inf or nan
Norm(n, d) ==
    IF d = 0 THEN <<Sign(n), 0>>
    ELSE LET g == Gcd(Abs(n), Abs(d))
         IN  <<(Sign(d) * n) \div g, Abs(d) \div g>>

R(i) == <<i, 1>>
NaN == <<0, 0>>
Inf == <<1, 0>>

IsNaN(a) == a = NaN
IsFinite(a) == a[2] # 0

RAdd(a, b) ==
    IF a[2] = 0 /\ b[2] = 0
    THEN (IF a = b THEN a ELSE NaN)
    ELSE Norm(a[1] * b[2] + b[1] * a[2], a[2] * b[2])

RNeg(a) == <<-a[1], a[2]>>

RSub(a, b) == RAdd(a, RNeg(b))

RMul(a, b) == Norm(a[1] * b[1], a[2] * b[2])

RDiv(a, b) == Norm(a[1] * b[2] * (IF b[1] < 0 THEN -1 ELSE 1), a[2] * Abs(b[1]))

RAbs(a) == <<Abs(a[1]), a[2]>>

\* a < b for finite a, b
RLess(a, b) == a[1] * b[2] < b[1] * a[2]

RLeq(a, b) == a[1] * b[2] <= b[1] * a[2]

RECURSIVE RSum(_)
RSum(s) == IF s = <<>> THEN R(0) ELSE RAdd(Head(s), RSum(Tail(s)))

RECURSIVE RProd(_)
RProd(s) == IF s = <<>> THEN R(1) ELSE RMul(Head(s), RProd(Tail(s)))

---------------------------------------------------------------------------
(* Array helpers                                                           *)

Range(s) == {s[i] : i \in DOMAIN s}

\* the array <<F(i), ..., F(n)>>, built entry by entry
RECURSIVE TabFrom(_, _, _)
TabFrom(F(_), i, n) == IF i > n THEN <<>> ELSE <<F(i)>> \o TabFrom(F, i + 1, n)

\* the array <<F(1), ..., F(n)>>
Tab(n, F(_)) == TabFrom(F, 1, n)

Min(S) == CHOOSE x \in S : \A y \in S : x <= y

\* np.unique: the distinct values, ascending
RECURSIVE np_unique_set(_)
np_unique_set(S) ==
    IF S = {} THEN <<>> ELSE <<Min(S)>> \o np_unique_set(S \ {Min(S)})

np_unique(y) == np_unique_set(Range(y))

\* len(np.unique(y))
NumClasses(y) == Cardinality(Range(y))

\* number of positions of y holding v
Count(y, v) == Cardinality({i \in DOMAIN y : y[i] = v})

\* the entries of a matrix (a sequence of rows), row-major
RECURSIVE Flatten(_)
Flatten(m) == IF m = <<>> THEN <<>> ELSE Head(m) \o Flatten(Tail(m))

\* all vectors of length n over S
Vectors(S, n) == [1..n -> S]

VectorsUpTo(S, n) == UNION {Vectors(S, k) : k \in 1..n}

RECURSIVE SumInts(_)
SumInts(s) == IF s = <<>> THEN 0 ELSE Head(s) + SumInts(Tail(s))

---------------------------------------------------------------------------
(* IEEE-754 binary64, the doubles >= 0: a positive double is [m, e], the   *)
(* value m * 2^e with a significand m of exactly Precision bits; m is a    *)
(* natural number in limbs of LimbBits bits, least significant first,      *)
(* without leading zeros.  Zero, +inf and nan have no significand.         *)

LimbBits == 14
Base == 2^LimbBits
Precision == 53

RECURSIVE BigNorm(_)
BigNorm(a) ==
    IF a = <<>> THEN <<>>
    ELSE IF a[Len(a)] = 0 THEN BigNorm(SubSeq(a, 1, Len(a) - 1)) ELSE a

RECURSIVE BigFromInt(_)
BigFromInt(n) == IF n = 0 THEN <<>> ELSE <<n % Base>> \o BigFromInt(n \div Base)

Limb(a, i) == IF i >= 1 /\ i <= Len(a) THEN a[i] ELSE 0

\* column sums c to limbs, carrying upwards from column i
RECURSIVE BigCarry(_, _, _)
BigCarry(c, i, carry) ==
    IF i > Len(c)
    THEN BigFromInt(carry)
    ELSE LET t == c[i] + carry IN <<t % Base>> \o BigCarry(c, i + 1, t \div Base)

BigAdd(a, b) ==
    LET n == IF Len(a) > Len(b) THEN Len(a) ELSE Len(b)
    IN  BigNorm(BigCarry(Tab(n, LAMBDA i : Limb(a, i) + Limb(b, i)), 1, 0))

BigMul(a, b) ==
    IF a = <<>> \/ b = <<>> THEN <<>>
    ELSE LET col(k) == SumInts(Tab(Len(a), LAMBDA i : a[i] * Limb(b, k + 1 - i)))
         IN  BigNorm(BigCarry(Tab(Len(a) + Len(b) - 1, col), 1, 0))

RECURSIVE BigLessFrom(_, _, _)
BigLessFrom(a, b, i) ==
    IF i = 0 THEN FALSE
    ELSE IF a[i] # b[i] THEN a[i] < b[i] ELSE BigLessFrom(a, b, i - 1)

BigLess(a, b) ==
    IF Len(a) # Len(b) THEN Len(a) < Len(b) ELSE BigLessFrom(a, b, Len(a))

BigLeq(a, b) == ~BigLess(b, a)

RECURSIVE BitLen(_)
BitLen(n) == IF n = 0 THEN 0 ELSE 1 + BitLen(n \div 2)

BigBitLen(a) == IF a = <<>> THEN 0 ELSE LimbBits * (Len(a) - 1) + BitLen(a[Len(a)])

\* 2^k
BigPow2(k) == Tab(k \div LimbBits, LAMBDA i : 0) \o <<2^(k % LimbBits)>>

\* floor(a / 2^s)
BigShr(a, s) ==
    LET q == s \div LimbBits
        r == s % LimbBits
    IN  BigNorm(Tab(Len(a) - q, LAMBDA i :
            (a[i + q] \div 2^r) + (Limb(a, i + q + 1) % 2^r) * 2^(LimbBits - r)))

\* bit i of a, bit 0 the least significant
BigBit(a, i) == (Limb(a, i \div LimbBits + 1) \div 2^(i % LimbBits)) % 2

\* a mod 2^s = 0
BigLowZero(a, s) ==
    /\ \A i \in 1..(s \div LimbBits) : Limb(a, i) = 0
    /\ Limb(a, s \div LimbBits + 1) % 2^(s % LimbBits) = 0

\* long division of a by the small integer b, from the top limb down:
\* <<quotient, remainder>>
RECURSIVE BigDivSmallFrom(_, _, _, _)
BigDivSmallFrom(a, b, i, rem) ==
    IF i = 0 THEN <<<<>>, rem>>
    ELSE LET t    == rem * Base + a[i]
             rest == BigDivSmallFrom(a, b, i - 1, t % b)
         IN  <<rest[1] \o <<t \div b>>, rest[2]>>

BigDivSmall(a, b) ==
    LET qr == BigDivSmallFrom(a, b, Len(a), 0) IN <<BigNorm(qr[1]), qr[2]>>

Zero == [m |-> <<>>, e |-> 0]
PosInf == [m |-> <<>>, e |-> 1]
NotANumber == [m |-> <<>>, e |-> 2]
One == [m |-> BigPow2(Precision - 1), e |-> 1 - Precision]

\* n * 2^e for n > 0 (plus a positive amount below 2^e if sticky, n then of
\* more than Precision bits), rounded to the nearest double, ties to even
Round(n, e, sticky) ==
    LET s == BigBitLen(n) - Precision
    IN  IF s <= 0
        THEN [m |-> BigMul(n, BigPow2(-s)), e |-> e + s]
        ELSE LET q    == BigShr(n, s)
                 half == BigBit(n, s - 1) = 1
                 rest == sticky \/ ~BigLowZero(n, s - 1)
                 up   == half /\ (rest \/ BigBit(q, 0) = 1)
                 m    == IF up THEN BigAdd(q, <<1>>) ELSE q
             IN  IF BigBitLen(m) > Precision
                 THEN [m |-> BigShr(m, 1), e |-> e + s + 1]
                 ELSE [m |-> m, e |-> e + s]

\* bits of the quotient kept below the binary point before rounding
Guard == 5 * LimbBits

\* a / b in float64, for integers a >= 0 and 0 <= b < 2^16
true_divide(a, b) ==
    IF b = 0 THEN (IF a = 0 THEN NotANumber ELSE PosInf)
    ELSE IF a = 0 THEN Zero
    ELSE LET qr == BigDivSmall(Tab(Guard \div LimbBits, LAMBDA i : 0) \o BigFromInt(a), b)
         IN  Round(qr[1], -Guard, qr[2] # 0)

\* the integer a >= 0 as a double
float64(a) == true_divide(a, 1)

\* x / k in float64, for a double x >= 0 and an integer 0 < k < 2^16
divide(x, k) ==
    IF x.m = <<>> THEN x
    ELSE LET qr == BigDivSmall(Tab(Guard \div LimbBits, LAMBDA i : 0) \o x.m, k)
         IN  Round(qr[1], x.e - Guard, qr[2] # 0)

\* x * y in float64, for doubles x, y >= 0
multiply(x, y) ==
    IF x = NotANumber \/ y = NotANumber THEN NotANumber
    ELSE IF x = PosInf \/ y = PosInf
         THEN (IF x = Zero \/ y = Zero THEN NotANumber ELSE PosInf)
    ELSE IF x = Zero \/ y = Zero THEN Zero
    ELSE Round(BigMul(x.m, y.m), x.e + y.e, FALSE)

\* x + y in float64, for doubles x, y >= 0
add(x, y) ==
    IF x = NotANumber \/ y = NotANumber THEN NotANumber
    ELSE IF x = PosInf \/ y = PosInf THEN PosInf
    ELSE IF x = Zero THEN y
    ELSE IF y = Zero THEN x
    ELSE LET e == IF x.e < y.e THEN x.e ELSE y.e
         IN  Round(BigAdd(BigMul(x.m, BigPow2(x.e - e)), BigMul(y.m, BigPow2(y.e - e))),
                   e, FALSE)

\* np.sum of a non-empty flat array: a left-to-right running sum
RECURSIVE np_sum(_)
np_sum(s) ==
    IF Len(s) = 1 THEN s[1]
    ELSE add(np_sum(SubSeq(s, 1, Len(s) - 1)), s[Len(s)])

\* np.prod of a non-empty flat array: a left-to-right running product
RECURSIVE np_prod(_)
np_prod(s) ==
    IF Len(s) = 1 THEN s[1]
    ELSE multiply(np_prod(SubSeq(s, 1, Len(s) - 1)), s[Len(s)])

\* Whether x ** (1.0 / c) can be 1.0.  pow(1.0, y) is 1.0; x ** 1.0 is x.
\* Otherwise the result of libm's pow is a double within one ulp of the
\* real x^(1/c): for x = 1 - k * 2^-53 that is about 1 - (k / c) * 2^-53 and
\* 1.0 is within one ulp only if k < c; for x = 1 + k * 2^-52 it is about
\* 1 + (k / c) * 2^-52 and 1.0 is within one ulp only if k <= c.
pow_may_be_one(x, c) ==
    \/ x = One
    \/ /\ c > 1
       /\ x # Zero
       /\ \/ /\ x.e = -Precision
             /\ BigLess(BigPow2(Precision), BigAdd(x.m, BigFromInt(c)))
          \/ /\ x.e = 1 - Precision
             /\ BigLeq(x.m, BigAdd(BigPow2(Precision - 1), BigFromInt(c)))

---------------------------------------------------------------------------
(* classification.g_score                                                  *)

\* sklearn check_clusterings: both 1-D (they are, here) and of equal length
check_clusterings(y_true, y_pred) == Len(y_true) = Len(y_pred)

\* sklearn contingency_matrix, eps=None, sparse=False: rows are the distinct
\* values of y_true ascending, columns the distinct values of y_pred ascending
contingency_matrix(y_true, y_pred) ==
    LET classes  == np_unique(y_true)
        clusters == np_unique(y_pred)
    IN  Tab(Len(classes), LAMBDA i :
          Tab(Len(clusters), LAMBDA j :
            Cardinality({k \in DOMAIN y_true :
                           y_true[k] = classes[i] /\ y_pred[k] = clusters[j]})))

\* c.shape
NRows(c) == Len(c)
NCols(c) == IF Len(c) = 0 THEN 0 ELSE Len(c[1])

\* c.diagonal(): min(rows, columns) entries
diagonal(c) ==
    LET m == IF NRows(c) < NCols(c) THEN NRows(c) ELSE NCols(c)
    IN  Tab(m, LAMBDA i : c[i][i])

\* c.sum(axis=1).ravel()
row_sums(c) == Tab(NRows(c), LAMBDA i : SumInts(c[i]))

\* d.reshape([len(d), 1]) / c.sum(axis=1).ravel(): a column of len(d) entries
\* divided by a flat vector of C entries broadcasts to a len(d) x C array
true_rates(c) ==
    LET d == diagonal(c)
        s == row_sums(c)
    IN  Tab(Len(d), LAMBDA i : Tab(Len(s), LAMBDA j : RDiv(R(d[i]), R(s[j]))))

\* the same array as float64 computes it, entry by entry
true_rates_float64(c) ==
    LET d == diagonal(c)
        s == row_sums(c)
    IN  Tab(Len(d), LAMBDA i : Tab(Len(s), LAMBDA j : true_divide(d[i], s[j])))

\* g = np.prod(true_rates) ** (1.0 / c.shape[0]): radicand is the real value
\* of the product, float64 the double np.prod returns
g_score(y_true, y_pred) ==
    IF ~check_clusterings(y_true, y_pred)
    THEN [kind |-> "error", err |-> "ValueError"]
    ELSE LET c == contingency_matrix(y_true, y_pred)
         IN  [kind |-> "root",
              radicand |-> RProd(Flatten(true_rates(c))),
              float64 |-> np_prod(Flatten(true_rates_float64(c))),
              index |-> NRows(c)]

---------------------------------------------------------------------------
(* classification.geometric_roc_auc_score                                  *)

\* n x k matrices over S, as sequences of n rows
Matrices(S, n, k) == [1..n -> [1..k -> S]]

\* m[:, i]
Column(m, i) == Tab(Len(m), LAMBDA r : m[r][i])

\* OneHotEncoder().fit_transform(y_true.reshape((n, 1))).todense(): one
\* indicator column per distinct value of y_true, ascending
OneHotEncoder(y_true) ==
    LET classes == np_unique(y_true)
    IN  Tab(Len(y_true), LAMBDA r :
          Tab(Len(classes), LAMBDA i : IF y_true[r] = classes[i] THEN 1 ELSE 0))

Max(S) == CHOOSE x \in S : \A y \in S : x >= y

\* the distinct values, descending
RECURSIVE Descending(_)
Descending(S) ==
    IF S = {} THEN <<>> ELSE <<Max(S)>> \o Descending(S \ {Max(S)})

\* sklearn _binary_clf_curve, pos_label=None (1), sample_weight=None: at each
\* distinct score, descending, the positives (tps) and negatives (fps) scored
\* at least that high
binary_clf_curve(y_true, y_score) ==
    LET thresholds == Descending(Range(y_score))
        AtLeast(t, v) == Cardinality({k \in DOMAIN y_true :
                                        y_score[k] >= t /\ y_true[k] = v})
    IN  [fps |-> Tab(Len(thresholds), LAMBDA i : AtLeast(thresholds[i], 0)),
         tps |-> Tab(Len(thresholds), LAMBDA i : AtLeast(thresholds[i], 1))]

\* the entries of s at the positions (ascending) that satisfy Keep
RECURSIVE SelectIdx(_, _, _)
SelectIdx(s, Keep(_), i) ==
    IF i > Len(s) THEN <<>>
    ELSE (IF Keep(i) THEN <<s[i]>> ELSE <<>>) \o SelectIdx(s, Keep, i + 1)

\* sklearn roc_curve: drop_intermediate keeps the first and last point and the
\* points where fps or tps has a non-zero second difference; an extra point
\* (0, 0) is put in front; fpr = fps / fps[-1], tpr = tps / tps[-1] (NaN when
\* there is no negative or no positive sample)
roc_curve(y_true, y_score, drop_intermediate) ==
    LET b == binary_clf_curve(y_true, y_score)
        n == Len(b.fps)
        Diff2(s, i) == s[i + 1] - 2 * s[i] + s[i - 1]
        Keep(i) == \/ ~(drop_intermediate /\ n > 2)
                   \/ i = 1
                   \/ i = n
                   \/ Diff2(b.fps, i) # 0
                   \/ Diff2(b.tps, i) # 0
        fps == <<0>> \o SelectIdx(b.fps, Keep, 1)
        tps == <<0>> \o SelectIdx(b.tps, Keep, 1)
    IN  [fpr |-> Tab(Len(fps), LAMBDA i : RDiv(R(fps[i]), R(fps[Len(fps)]))),
         tpr |-> Tab(Len(tps), LAMBDA i : RDiv(R(tps[i]), R(tps[Len(tps)])))]

\* sklearn auc, reorder=False: np.trapz(y, x)
auc(x, y) ==
    RSum(Tab(Len(x) - 1, LAMBDA i :
           RDiv(RMul(RSub(x[i + 1], x[i]), RAdd(y[i + 1], y[i])), R(2))))

\* class_auc reading y_score[:, 0] for every class
class_auc_first_column(onehot, y_score, i, drop_intermediate) ==
    LET c == roc_curve(Column(onehot, i), Column(y_score, 1), drop_intermediate)
    IN  auc(c.fpr, c.tpr)

\* the loop body, for class i (1-based): the AUC of column i of y_score against
\* column i of the one-hot y_true
class_auc(onehot, y_score, i, drop_intermediate) ==
    LET c == roc_curve(Column(onehot, i), Column(y_score, i), drop_intermediate)
    IN  auc(c.fpr, c.tpr)

\* gaur = np.prod(classes_auc) ** (1. / n_classes); y_score[:, i] raises
\* IndexError at the first class i beyond the columns of y_score
geometric_roc_auc_score(y_true, y_score, drop_intermediate) ==
    LET n_classes == NumClasses(y_true)
        onehot == OneHotEncoder(y_true)
    IN  IF n_classes > Len(y_score[1])
        THEN [kind |-> "error", err |-> "IndexError"]
        ELSE [kind |-> "root",
              radicand |-> RProd(Tab(n_classes, LAMBDA i :
                                   class_auc(onehot, y_score, i, drop_intermediate))),
              index |-> n_classes]

---------------------------------------------------------------------------
(* classification.separability_score                                       *)

\* the rows of m at the positions (ascending) where y holds c:
\* y_pred[np.where(y_true.T == c)[0]]
RECURSIVE RowsWhere(_, _, _)
RowsWhere(m, y, c) ==
    IF m = <<>> THEN <<>>
    ELSE (IF Head(y) = c THEN <<Head(m)>> ELSE <<>>) \o RowsWhere(Tail(m), Tail(y), c)

\* np_cov with bias=True: scaled by 1 / n
np_cov_biased(m) ==
    LET n == Len(m)
        d == Len(m[1])
        total == Tab(d, LAMBDA k : SumInts(Column(m, k)))
        X == Tab(n, LAMBDA r : Tab(d, LAMBDA k : n * m[r][k] - total[k]))
    IN  Tab(d, LAMBDA j :
          Tab(d, LAMBDA k :
            Norm(SumInts(Tab(n, LAMBDA r : X[r][j] * X[r][k])), n * n * n)))

\* np.cov(m, rowvar=0): rows are observations, columns variables.  numpy
\* subtracts the column averages (X -= avg), takes dot(X.T, X) and scales it by
\* 1 / (n - 1).  X is kept here as the integers n * (x - avg) = n * x - sum, so
\* an entry is sum(X_j * X_k) / (n * n * (n - 1)); with a single observation
\* that is 0 / 0, numpy's 0 * inf: NaN
np_cov(m) ==
    LET n == Len(m)
        d == Len(m[1])
        total == Tab(d, LAMBDA k : SumInts(Column(m, k)))
        X == Tab(n, LAMBDA r : Tab(d, LAMBDA k : n * m[r][k] - total[k]))
        fact == n - 1
    IN  Tab(d, LAMBDA j :
          Tab(d, LAMBDA k :
            Norm(SumInts(Tab(n, LAMBDA r : X[r][j] * X[r][k])), n * n * fact)))

\* np_mean as np.sum(sc, axis=0)
np_mean_sum(sc) ==
    LET d == Len(sc[1])
    IN  Tab(d, LAMBDA j : Tab(d, LAMBDA k : RSum(Tab(Len(sc), LAMBDA c : sc[c][j][k]))))

\* np.mean(sc, axis=0): the entry-wise mean of a list of d x d matrices
np_mean(sc) ==
    LET d == Len(sc[1])
    IN  Tab(d, LAMBDA j :
          Tab(d, LAMBDA k :
            RDiv(RSum(Tab(Len(sc), LAMBDA c : sc[c][j][k])), R(Len(sc)))))

\* within-class scatter sw: the mean of the per-class covariances;
\* total scatter st: the covariance of all rows
scatter_matrices(y_true, y_pred) ==
    LET classes == np_unique(y_true)
        sc == Tab(Len(classes), LAMBDA c : np_cov(RowsWhere(y_pred, y_true, classes[c])))
    IN  [sw |-> np_mean(sc), st |-> np_cov(y_pred)]

\* np.trace
np_trace(s) == RSum(Tab(Len(s), LAMBDA k : s[k][k]))

\* separability_score with s = sw / st
separability_score_inverted(y_true, y_pred) ==
    LET m == scatter_matrices(y_true, y_pred)
        d == Len(m.st)
        s == Tab(d, LAMBDA j : Tab(d, LAMBDA k : RDiv(m.sw[j][k], m.st[j][k])))
    IN  [kind |-> "value", val |-> IF d = 1 THEN s[1][1] ELSE np_trace(s)]

\* s = st / sw entry by entry; with one feature np.cov yields a 0-d array and s
\* is a scalar, returned as it is; otherwise the trace of s is returned
separability_score(y_true, y_pred) ==
    LET m == scatter_matrices(y_true, y_pred)
        d == Len(m.st)
        s == Tab(d, LAMBDA j : Tab(d, LAMBDA k : RDiv(m.st[j][k], m.sw[j][k])))
    IN  [kind |-> "value", val |-> IF d = 1 THEN s[1][1] ELSE np_trace(s)]

---------------------------------------------------------------------------
(* regression.relative_mean_absolute_error                                 *)

\* sample_weight=None
None == <<>>

\* the real values / the doubles of an array of [val, float64] entries
Vals(a) == Tab(Len(a), LAMBDA i : a[i].val)
Doubles(a) == Tab(Len(a), LAMBDA i : a[i].float64)

\* a * weights, entry by entry
Weighted(a, weights) ==
    Tab(Len(a), LAMBDA i : [val |-> RMul(a[i].val, R(weights[i])),
                            float64 |-> multiply(a[i].float64, float64(weights[i]))])

\* np_average normalising by the number of samples, not the sum of weights
np_average_by_count(a, weights) ==
    IF weights = None
    THEN [kind |-> "value",
          val |-> RDiv(RSum(Vals(a)), R(Len(a))),
          float64 |-> divide(np_sum(Doubles(a)), Len(a))]
    ELSE IF SumInts(weights) = 0
         THEN [kind |-> "error", err |-> "ZeroDivisionError"]
         ELSE [kind |-> "value",
               val |-> RDiv(RSum(Vals(Weighted(a, weights))), R(Len(a))),
               float64 |-> divide(np_sum(Doubles(Weighted(a, weights))), Len(a))]

\* np.average(a, weights, axis=0) of a 1-D array: a.mean() without weights;
\* with weights, ZeroDivisionError when they sum to zero, else
\* np.multiply(a, weights).sum() / weights.sum().  val is the real value of
\* the result, float64 the double returned.
np_average(a, weights) ==
    IF weights = None
    THEN [kind |-> "value",
          val |-> RDiv(RSum(Vals(a)), R(Len(a))),
          float64 |-> divide(np_sum(Doubles(a)), Len(a))]
    ELSE LET scl == SumInts(weights)
         IN  IF scl = 0
             THEN [kind |-> "error", err |-> "ZeroDivisionError"]
             ELSE [kind |-> "value",
                   val |-> RDiv(RSum(Vals(Weighted(a, weights))), R(scl)),
                   float64 |-> divide(np_sum(Doubles(Weighted(a, weights))), scl)]

\* diff = np.abs(y_pred - y_true) / np.abs(y_true)
relative_diff(y_true, y_pred) ==
    Tab(Len(y_true), LAMBDA i :
      [val |-> RDiv(R(Abs(y_pred[i] - y_true[i])), R(Abs(y_true[i]))),
       float64 |-> true_divide(Abs(y_pred[i] - y_true[i]), Abs(y_true[i]))])

relative_mean_absolute_error(y_true, y_pred, sample_weight) ==
    np_average(relative_diff(y_true, y_pred), sample_weight)

---------------------------------------------------------------------------
(* The caller                                                              *)

NoArgs == [none |-> 0]
NoRet  == [kind |-> "none"]

Labels == 0..MaxLabel

\* a clustering by class sizes: sizes[i] samples of label i - 1, in label order
RECURSIVE Clustering(_)
Clustering(sizes) ==
    IF sizes = <<>> THEN <<>>
    ELSE Clustering(SubSeq(sizes, 1, Len(sizes) - 1))
           \o Tab(sizes[Len(sizes)], LAMBDA i : Len(sizes) - 1)

Reversed(y) == Tab(Len(y), LAMBDA i : y[Len(y) + 1 - i])

Sizes == 1..MaxSize

\* geometric_roc_auc_score is called with two or three samples of two labels,
\* both present (a one-vs-rest ROC curve needs a positive and a negative
\* sample), and a score matrix of one, two or three columns: <<n_samples,
\* n_columns>>
RocLabels == {0, 1}
RocShapes == {<<2, 1>>, <<2, 2>>, <<2, 3>>, <<3, 1>>, <<3, 2>>}
RocTargets(n) == {y \in Vectors(RocLabels, n) : NumClasses(y) = 2}
Scores == 0..MaxScore

\* separability_score is called with two to four samples of two labels and one
\* or two features
SepLabels == {0, 1}
SepSamples == {2, 3, 4}
SepFeatures == {1, 2}
Values == 0..MaxVal

\* the two-cluster test: two clusters of two samples each
TwoClusters == {<<0, 0, 1, 1>>}
ClusterValues == {0, 1, 2}
Shifts == 0..MaxShift

\* relative_mean_absolute_error is called with one or two samples
RmaeSamples == {1, 2}
Targets == {-MaxTarget, -1, 0, 1, MaxTarget}
Weights == 0..MaxWeight

Init ==
    /\ pc = "idle"
    /\ fn = "none"
    /\ args = NoArgs
    /\ ret = NoRet
    /\ prev = NoRet

Call_g_score ==
    /\ pc = "idle"
    /\ \E y_true \in VectorsUpTo(Labels, MaxLen), y_pred \in VectorsUpTo(Labels, MaxLen) :
         /\ fn' = "g_score"
         /\ args' = [y_true |-> y_true, y_pred |-> y_pred]
         /\ ret' = g_score(y_true, y_pred)
    /\ pc' = "done"
    /\ UNCHANGED prev

\* g_score of larger clusterings, given by their class sizes, against
\* themselves and against themselves in reverse order
Call_g_score_sized ==
    /\ pc = "idle"
    /\ \E n \in 1..MaxClasses :
         \E sizes \in Vectors(Sizes, n), reverse \in BOOLEAN :
            LET y_true == Clustering(sizes)
                y_pred == IF reverse THEN Reversed(y_true) ELSE y_true
            IN  /\ fn' = "g_score"
                /\ args' = [y_true |-> y_true, y_pred |-> y_pred]
                /\ ret' = g_score(y_true, y_pred)
    /\ pc' = "done"
    /\ UNCHANGED prev

Call_geometric_roc_auc_score ==
    /\ pc = "idle"
    /\ \E shape \in RocShapes :
         \E y_true \in RocTargets(shape[1]),
            y_score \in Matrices(Scores, shape[1], shape[2]),
            drop_intermediate \in BOOLEAN :
              /\ fn' = "geometric_roc_auc_score"
              /\ args' = [y_true |-> y_true, y_score |-> y_score,
                          drop_intermediate |-> drop_intermediate]
              /\ ret' = geometric_roc_auc_score(y_true, y_score, drop_intermediate)
    /\ pc' = "done"
    /\ UNCHANGED prev

Call_separability_score ==
    /\ pc = "idle"
    /\ \E n \in SepSamples, d \in SepFeatures :
         \E y_true \in Vectors(SepLabels, n), y_pred \in Matrices(Values, n, d) :
              /\ fn' = "separability_score"
              /\ args' = [y_true |-> y_true, y_pred |-> y_pred]
              /\ ret' = separability_score(y_true, y_pred)
    /\ pc' = "done"
    /\ UNCHANGED prev

Call_relative_mean_absolute_error ==
    /\ pc = "idle"
    /\ \E n \in RmaeSamples :
         \E y_true \in Vectors(Targets, n), y_pred \in Vectors(Targets, n),
            sample_weight \in Vectors(Weights, n) \cup {None} :
              /\ fn' = "relative_mean_absolute_error"
              /\ args' = [y_true |-> y_true, y_pred |-> y_pred,
                          sample_weight |-> sample_weight]
              /\ ret' = relative_mean_absolute_error(y_true, y_pred, sample_weight)
    /\ pc' = "done"
    /\ UNCHANGED prev

\* the call returns (or raises) to the caller, which may call again
Return ==
    /\ pc = "done"
    /\ pc' = "idle"
    /\ fn' = "none"
    /\ args' = NoArgs
    /\ ret' = NoRet
    /\ prev' = NoRet

\* The two-cluster test: score two clusters, ...
Call_two_clusters ==
    /\ pc = "idle"
    /\ \E d \in SepFeatures :
         \E y_true \in TwoClusters, y_pred \in Matrices(ClusterValues, 4, d) :
              /\ fn' = "two_cluster_test"
              /\ args' = [y_true |-> y_true, y_pred |-> y_pred, moved |-> FALSE]
              /\ ret' = separability_score(y_true, y_pred)
    /\ pc' = "done"
    /\ UNCHANGED prev

\* the rows of y_pred whose label is c, moved by offset
Translate(y_true, y_pred, c, offset) ==
    Tab(Len(y_pred), LAMBDA r :
      IF y_true[r] = c
      THEN Tab(Len(offset), LAMBDA k : y_pred[r][k] + offset[k])
      ELSE y_pred[r])

\* ... then move the cluster of label 1 by an offset and score again
Move_cluster ==
    /\ pc = "done"
    /\ fn = "two_cluster_test"
    /\ ~args.moved
    /\ \E offset \in Vectors(Shifts, Len(args.y_pred[1])) :
         LET y_moved == Translate(args.y_true, args.y_pred, 1, offset)
         IN  /\ args' = [y_true |-> args.y_true, y_pred |-> y_moved, moved |-> TRUE,
                         before |-> args.y_pred, offset |-> offset]
             /\ ret' = separability_score(args.y_true, y_moved)
    /\ prev' = ret
    /\ UNCHANGED <<pc, fn>>

Next ==
    \/ Call_g_score
    \/ Call_geometric_roc_auc_score
    \/ Call_separability_score
    \/ Call_relative_mean_absolute_error
    \/ Return

Spec == Init /\ [][Next]_vars

NextG == Call_g_score \/ Return

SpecG == Init /\ [][NextG]_vars

NextSized == Call_g_score_sized \/ Return

SpecSized == Init /\ [][NextSized]_vars

NextRoc == Call_geometric_roc_auc_score \/ Return

SpecRoc == Init /\ [][NextRoc]_vars

NextSep == Call_separability_score \/ Return

SpecSep == Init /\ [][NextSep]_vars

NextTwoClusters == Call_two_clusters \/ Move_cluster \/ Return

SpecTwoClusters == Init /\ [][NextTwoClusters]_vars

NextRmae == Call_relative_mean_absolute_error \/ Return

SpecRmae == Init /\ [][NextRmae]_vars

---------------------------------------------------------------------------
(* Properties of g_score                                                   *)

Called(f) == pc = "done" /\ fn = f

\* the recall of a label: samples of that true label predicted as that label,
\* over samples of that true label
Recall(y_true, y_pred, label) ==
    RDiv(R(Cardinality({k \in DOMAIN y_true : y_true[k] = label /\ y_pred[k] = label})),
         R(Count(y_true, label)))

RecallProduct(y_true, y_pred) ==
    LET classes == np_unique(y_true)
    IN  RProd(Tab(Len(classes), LAMBDA i : Recall(y_true, y_pred, classes[i])))

\* C1: for equal-length y_true, y_pred, g_score returns the geometric mean of
\* the per-class recalls: g ^ C equals the product of the C recalls, C being
\* the number of distinct labels of y_true.
C1_GeometricMeanOfRecalls ==
    (Called("g_score") /\ Len(args.y_true) = Len(args.y_pred))
        => /\ ret.kind = "root"
           /\ ret.index = Len(np_unique(args.y_true))
           /\ ret.radicand = RecallProduct(args.y_true, args.y_pred)

\* a label permutation applied to a vector
Relabel(p, y) == Tab(Len(y), LAMBDA i : p[y[i]])

Permutations(S) == {p \in [S -> S] : \A a, b \in S : p[a] = p[b] => a = b}

\* C2: for any non-empty label vector y, g_score(y, y) returns exactly 1.0:
\* np.prod(true_rates) is a double that ** (1.0 / C) can take to 1.0.
C2_PerfectPredictionScoresOne ==
    (Called("g_score") /\ args.y_true = args.y_pred)
        => (ret.kind = "root" /\ pow_may_be_one(ret.float64, ret.index))

\* C3: g_score is invariant to consistent relabeling: for every permutation p
\* of the labels, g_score(p(y_true), p(y_pred)) = g_score(y_true, y_pred).
C3_RelabelInvariant ==
    (Called("g_score") /\ Len(args.y_true) = Len(args.y_pred))
        => \A p \in Permutations(Labels) :
              g_score(Relabel(p, args.y_true), Relabel(p, args.y_pred)) = ret

\* C4: for equal-length non-empty y_true, y_pred (square contingency matrix or
\* not) the value of g_score lies in [0, 1]; g = radicand ^ (1 / index) with
\* index >= 1 lies in [0, 1] exactly when the radicand does.
C4_UnitInterval ==
    (Called("g_score") /\ Len(args.y_true) = Len(args.y_pred))
        => /\ ret.kind = "root"
           /\ IsFinite(ret.radicand)
           /\ RLeq(R(0), ret.radicand)
           /\ RLeq(ret.radicand, R(1))

---------------------------------------------------------------------------
(* Properties of geometric_roc_auc_score                                   *)

PerfectSeparator(y_true, y_score) ==
    LET classes == np_unique(y_true)
    IN  /\ Len(classes) = 2
        /\ Len(y_score[1]) = 2
        /\ \A i \in 1..2 : \A a, b \in DOMAIN y_true :
              (y_true[a] = classes[i] /\ y_true[b] # classes[i])
                  => y_score[a][i] > y_score[b][i]

\* C6: for a 2-class y_true and an n x 2 perfect separator y_score,
\* geometric_roc_auc_score with default options returns 1.0: each one-vs-rest
\* AUC is 1 and the score is the square root of their product.
C6_PerfectSeparatorScoresOne ==
    (Called("geometric_roc_auc_score")
       /\ args.drop_intermediate
       /\ PerfectSeparator(args.y_true, args.y_score))
        => /\ ret = [kind |-> "root", radicand |-> R(1), index |-> 2]
           /\ \A i \in 1..2 :
                 class_auc(OneHotEncoder(args.y_true), args.y_score, i, TRUE) = R(1)

C6_Witness ==
    /\ Called("geometric_roc_auc_score")
    /\ args.drop_intermediate
    /\ PerfectSeparator(args.y_true, args.y_score)
    /\ Len(args.y_true) = 3
    /\ ret.kind = "root"
    /\ ret.radicand = R(1)

---------------------------------------------------------------------------
(* Properties of separability_score                                        *)

\* some class of y_true has fewer than two samples
SmallClass(y_true) == \E c \in Range(y_true) : Count(y_true, c) < 2

\* a within-class scatter entry that the returned score divides by is zero
ZeroWithin(y_true, y_pred) ==
    LET sw == scatter_matrices(y_true, y_pred).sw
    IN  \E k \in 1..Len(sw) : sw[k][k] = R(0)

SampleVar(xs) ==
    LET n == Len(xs)
    IN  Norm(n * SumInts(Tab(n, LAMBDA i : xs[i] * xs[i])) - SumInts(xs) * SumInts(xs),
             n * (n - 1))

\* St[k,k] / Sw[k,k]: the variance of feature k over all rows, over the mean
\* over the classes of its variance within the class
FeatureRatio(y_true, y_pred, k) ==
    LET classes == np_unique(y_true)
        within == Tab(Len(classes), LAMBDA c :
                    SampleVar(Column(RowsWhere(y_pred, y_true, classes[c]), k)))
    IN  RDiv(SampleVar(Column(y_pred, k)), RDiv(RSum(within), R(Len(classes))))

\* C8: when every class has at least 2 samples, separability_score returns,
\* without error, one scalar: for d >= 2 features the sum over the features k
\* of St[k,k] / Sw[k,k] (the trace of the element-wise quotient), for a single
\* feature St / Sw.
C8_TraceOfElementwiseQuotient ==
    (Called("separability_score") /\ ~SmallClass(args.y_true))
        => /\ ret.kind = "value"
           /\ ret.val = RSum(Tab(Len(args.y_pred[1]), LAMBDA k :
                               FeatureRatio(args.y_true, args.y_pred, k)))

C8_Witness ==
    /\ Called("separability_score")
    /\ ~SmallClass(args.y_true)
    /\ NumClasses(args.y_true) = 2
    /\ Len(args.y_pred[1]) = 2
    /\ Len(args.y_true) = 4
    /\ ret.kind = "value"
    /\ IsFinite(ret.val)
    /\ RLess(R(1), ret.val)

\* the mean of feature k over the rows of label c
ClassMean(y_true, y_pred, c, k) ==
    RDiv(R(SumInts(Column(RowsWhere(y_pred, y_true, c), k))), R(Count(y_true, c)))

\* the distance along feature k between the means of the two clusters
Gap(y_true, y_pred, k) ==
    RAbs(RSub(ClassMean(y_true, y_pred, 1, k), ClassMean(y_true, y_pred, 0, k)))

\* the squared distance between the means of the two clusters
Dist2(y_true, y_pred) ==
    RSum(Tab(Len(y_pred[1]), LAMBDA k :
           RMul(Gap(y_true, y_pred, k), Gap(y_true, y_pred, k))))

Moved == pc = "done" /\ fn = "two_cluster_test" /\ args.moved

\* C9 (as claimed): for two clusters of at least 2 samples each with non-zero
\* within-class variance, moving every sample of one cluster by an offset that
\* moves the two cluster means further apart yields a strictly larger score.
C9_IncreasesWithSeparation ==
    (Moved
       /\ ~ZeroWithin(args.y_true, args.before)
       /\ RLess(Dist2(args.y_true, args.before), Dist2(args.y_true, args.y_pred)))
        => RLess(prev.val, ret.val)

\* the move brings the cluster means closer along no feature and further
\* apart along at least one
FurtherApartPerFeature ==
    /\ \A k \in 1..Len(args.offset) :
          RLeq(Gap(args.y_true, args.before, k), Gap(args.y_true, args.y_pred, k))
    /\ \E k \in 1..Len(args.offset) :
          RLess(Gap(args.y_true, args.before, k), Gap(args.y_true, args.y_pred, k))

\* C9 (amended): for two clusters of at least 2 samples each with non-zero
\* within-class variance in every feature, moving every sample of one cluster
\* by an offset that along no feature brings the cluster means closer and along
\* at least one feature moves them further apart yields a strictly larger
\* score.
C9_IncreasesWithPerFeatureSeparation ==
    (Moved /\ ~ZeroWithin(args.y_true, args.before) /\ FurtherApartPerFeature)
        => /\ IsFinite(prev.val)
           /\ IsFinite(ret.val)
           /\ RLess(prev.val, ret.val)

C9_Witness ==
    /\ Moved
    /\ ~ZeroWithin(args.y_true, args.before)
    /\ FurtherApartPerFeature
    /\ Len(args.offset) = 2
    /\ args.y_true = <<0, 0, 1, 1>>
    /\ RLess(prev.val, ret.val)

---------------------------------------------------------------------------
(* Properties of relative_mean_absolute_error                              *)

\* every weight is w
AllEqual(weights, w) == \A i \in DOMAIN weights : weights[i] = w

NoZero(y) == \A i \in DOMAIN y : y[i] # 0

\* the plain mean of |y_pred - y_true| / |y_true|
PlainMean(y_true, y_pred) ==
    RDiv(RSum(Tab(Len(y_true), LAMBDA i :
                RDiv(R(Abs(y_pred[i] - y_true[i])), R(Abs(y_true[i]))))),
         R(Len(y_true)))

IsPowerOfTwo(w) == \E k \in 0..w : w = 2^k

===========================================================================
